---- MODULE Spec2Model ----
(***************************************************************************)
(* A model of voice_processor.py: the voice-to-terrain pipeline            *)
(* (transcription, remote or heuristic analysis, validation, result        *)
(* assembly and the JSON printed by main).                                  *)
(*                                                                         *)
(* Numbers are fixed-point thousandths: 0.05 is 50, 22.5 is 22500.  A      *)
(* Python value is a record [t, v]: t is its type ("int", "float", "bool", *)
(* "nan" for float('nan'), "str", "null") and v its numeric value in       *)
(* thousandths (True is 1000, False is 0; 0 for the non-numeric types).    *)
(***************************************************************************)
EXTENDS Integers, Sequences, FiniteSets, TLC

VARIABLES
  \* validate_parameters on its own: the mapping, the result, the result of
  \* validating the result, the position
  vin, vout, vout2, vpc,
  \* fallback_analysis on its own: the text, the results of two calls, the
  \* position
  htext, hres1, hres2, hpc,
  \* the program: position, sys.argv, whether the audio file exists, the two
  \* import flags, the processor's client and model (TRUE when set), the
  \* speech engine's outcome, the transcript, the remote outcome, the analysed
  \* parameters, the result record, standard output, the log of stage calls
  pc, argv, fileExists, OPENAI_AVAILABLE, WHISPER_AVAILABLE, openai_client,
  whisper_model, heard, text, reply, parameters, result, stdout, calls

vvars == <<vin, vout, vout2, vpc>>
hvars == <<htext, hres1, hres2, hpc>>
pvars == <<pc, argv, fileExists, OPENAI_AVAILABLE, WHISPER_AVAILABLE, openai_client,
           whisper_model, heard, text, reply, parameters, result, stdout, calls>>
vars == <<vvars, hvars, pvars>>

(***************************************************************************)
(* Bounds of the model.                                                    *)
(***************************************************************************)
\* the largest number of keys of an enumerated mapping handed to the validator
MaxKeys == 2

(***************************************************************************)
(* Python values.                                                          *)
(***************************************************************************)
IntV(n) == [t |-> "int", v |-> n * 1000]
FloatV(whole, thousandths) == [t |-> "float", v |-> whole * 1000 + thousandths]
Bool(b) == [t |-> "bool", v |-> IF b THEN 1000 ELSE 0]
NaN == [t |-> "nan", v |-> 0]
Str == [t |-> "str", v |-> 0]
Null == [t |-> "null", v |-> 0]

\* isinstance(value, (int, float)): bool is a subclass of int, nan is a float
IsNumeric(value) == value.t \in {"int", "float", "bool", "nan"}

\* a < b on Python numbers: every comparison with nan is False
Lt(a, b) == a.t # "nan" /\ b.t # "nan" /\ a.v < b.v

\* min(a, b) and max(a, b): the first argument is kept unless the second is
\* strictly smaller (larger)
PyMin(a, b) == IF Lt(b, a) THEN b ELSE a
PyMax(a, b) == IF Lt(a, b) THEN b ELSE a

\* int(x) of a number: truncation toward zero, the result is an int
Trunc(v) == IF v >= 0 THEN (v \div 1000) * 1000 ELSE -(((-v) \div 1000) * 1000)
PyInt(x) == [t |-> "int", v |-> Trunc(x.v)]

(***************************************************************************)
(* Strings: substring containment, lower(), strip().                       *)
(***************************************************************************)
\* w in t
Contains(w, t) ==
  \E i \in 1..(Len(t) - Len(w) + 1) : SubSeq(t, i, i + Len(w) - 1) = w

UpperLetters == "ABCDEFGHIJKLMNOPQRSTUVWXYZ"
LowerLetters == "abcdefghijklmnopqrstuvwxyz"

LowerChar(c) ==
  IF \E i \in 1..Len(UpperLetters) : SubSeq(UpperLetters, i, i) = c
  THEN LET i == CHOOSE j \in 1..Len(UpperLetters) : SubSeq(UpperLetters, j, j) = c
       IN SubSeq(LowerLetters, i, i)
  ELSE c

RECURSIVE Lower(_)
Lower(t) == IF Len(t) = 0 THEN "" ELSE LowerChar(SubSeq(t, 1, 1)) \o Lower(SubSeq(t, 2, Len(t)))

IsSpace(c) == c \in {" ", "\n", "\t"}

RECURSIVE LStrip(_)
LStrip(t) ==
  IF Len(t) > 0 /\ IsSpace(SubSeq(t, 1, 1)) THEN LStrip(SubSeq(t, 2, Len(t))) ELSE t

RECURSIVE RStrip(_)
RStrip(t) ==
  IF Len(t) > 0 /\ IsSpace(SubSeq(t, Len(t), Len(t)))
  THEN RStrip(SubSeq(t, 1, Len(t) - 1)) ELSE t

Strip(t) == RStrip(LStrip(t))

(***************************************************************************)
(* validate_parameters.                                                     *)
(***************************************************************************)
\* the keys of the constraints table, in its order
Fields == <<"seed", "frequency", "amplitude", "octaves", "lacunarity",
            "persistence", "terrain_type", "erosion", "plateau">>

KnownKeys == {Fields[i] : i \in 1..Len(Fields)}

\* the fields coerced with int() after the loop
IntFields == {"terrain_type", "seed", "octaves"}

\* constraints[key] = (min_val, max_val)
constraints(key) ==
  CASE key = "seed" -> <<IntV(0), IntV(10000)>>
    [] key = "frequency" -> <<FloatV(0, 10), FloatV(1, 0)>>
    [] key = "amplitude" -> <<FloatV(0, 500), FloatV(20, 0)>>
    [] key = "octaves" -> <<IntV(1), IntV(6)>>
    [] key = "lacunarity" -> <<FloatV(1, 500), FloatV(3, 0)>>
    [] key = "persistence" -> <<FloatV(0, 100), FloatV(0, 800)>>
    [] key = "terrain_type" -> <<IntV(0), IntV(5)>>
    [] key = "erosion" -> <<FloatV(0, 0), FloatV(1, 0)>>
    [] key = "plateau" -> <<FloatV(0, 0), FloatV(15, 0)>>

\* a defaults table whose persistence entry lies above the range
defaults_OutOfRange(key) ==
  CASE key = "seed" -> IntV(42)
    [] key = "frequency" -> FloatV(0, 100)
    [] key = "amplitude" -> FloatV(5, 0)
    [] key = "octaves" -> IntV(3)
    [] key = "lacunarity" -> FloatV(2, 0)
    [] key = "persistence" -> FloatV(5, 0)
    [] key = "terrain_type" -> IntV(1)
    [] key = "erosion" -> FloatV(0, 0)
    [] key = "plateau" -> FloatV(0, 0)

\* defaults[key]
defaults(key) ==
  CASE key = "seed" -> IntV(42)
    [] key = "frequency" -> FloatV(0, 100)
    [] key = "amplitude" -> FloatV(5, 0)
    [] key = "octaves" -> IntV(3)
    [] key = "lacunarity" -> FloatV(2, 0)
    [] key = "persistence" -> FloatV(0, 500)
    [] key = "terrain_type" -> IntV(1)
    [] key = "erosion" -> FloatV(0, 0)
    [] key = "plateau" -> FloatV(0, 0)

\* a clamp that forgot the lower bound
Clamp_NoLowerBound(min_val, max_val, value) == PyMin(max_val, value)

\* max(min_val, min(max_val, value))
Clamp(min_val, max_val, value) == PyMax(min_val, PyMin(max_val, value))

(***************************************************************************)
(* A parsed JSON reply: kind "obj" (a dict, obj its mapping), "list"       *)
(* (items the strings it holds), "str" (s its text), "num", "bool",        *)
(* "null".                                                                  *)
(***************************************************************************)
EmptyMap == [k \in {} |-> Null]
Obj(m) == [kind |-> "obj", obj |-> m, items |-> {}, s |-> ""]
List(xs) == [kind |-> "list", obj |-> EmptyMap, items |-> xs, s |-> ""]
JStr(str) == [kind |-> "str", obj |-> EmptyMap, items |-> {}, s |-> str]
Scalar(kind) == [kind |-> kind, obj |-> EmptyMap, items |-> {}, s |-> ""]

\* `key in params`: dict membership, list membership, substring of a str;
\* on a number, a bool or None the operator itself raises TypeError
KeyIn(key, params) ==
  CASE params.kind = "obj" -> key \in DOMAIN params.obj
    [] params.kind = "list" -> key \in params.items
    [] params.kind = "str" -> Contains(key, params.s)
    [] OTHER -> FALSE

\* a non-numeric value replaced by the default instead of the minimum
ValidateField_DefaultForBadType(params, key) ==
  IF KeyIn(key, params)
  THEN IF IsNumeric(params.obj[key])
       THEN Clamp(constraints(key)[1], constraints(key)[2], params.obj[key])
       ELSE defaults(key)
  ELSE defaults(key)

\* one round of the loop over constraints.items(), for a dict
ValidateField(params, key) ==
  IF KeyIn(key, params)
  THEN IF IsNumeric(params.obj[key])
       THEN Clamp(constraints(key)[1], constraints(key)[2], params.obj[key])
       ELSE constraints(key)[1]
  ELSE defaults(key)

\* the loop's result before the int() coercions
Validated(params) == [key \in KnownKeys |-> ValidateField(params, key)]

\* whether validate_parameters raises: `in` on a non-container, params[key]
\* on a list or a str that holds the key, int() of a nan
ValidateRaises(params) ==
  \/ params.kind \in {"num", "bool", "null"}
  \/ params.kind \in {"list", "str"} /\ \E key \in KnownKeys : KeyIn(key, params)
  \/ params.kind = "obj" /\ \E key \in IntFields : Validated(params)[key].t = "nan"

Raised == [raised |-> TRUE, rec |-> EmptyMap]

validate_parameters(params) ==
  IF ValidateRaises(params) THEN Raised
  ELSE [raised |-> FALSE,
        rec |-> [key \in KnownKeys |->
                   IF key \in IntFields THEN PyInt(Validated(params)[key])
                   ELSE Validated(params)[key]]]

(***************************************************************************)
(* The mappings handed to the validator.                                   *)
(***************************************************************************)
UnknownKey == "biome"
AllKeys == KnownKeys \cup {UnknownKey}

Classes == {"lo", "mid", "hi", "int", "nan", "true", "false", "str", "null"}

\* a float inside the range, fractional for the integer fields
MidValue(key) ==
  CASE key = "seed" -> FloatV(3, 700)
    [] key = "frequency" -> FloatV(0, 500)
    [] key = "amplitude" -> FloatV(7, 500)
    [] key = "octaves" -> FloatV(2, 500)
    [] key = "lacunarity" -> FloatV(2, 500)
    [] key = "persistence" -> FloatV(0, 300)
    [] key = "terrain_type" -> FloatV(2, 500)
    [] key = "erosion" -> FloatV(0, 500)
    [] OTHER -> FloatV(7, 500)

\* an int: inside the range where the range holds one
IntValue(key) ==
  CASE key = "seed" -> IntV(7)
    [] key = "frequency" -> IntV(1)
    [] key = "persistence" -> IntV(0)
    [] key = "erosion" -> IntV(1)
    [] OTHER -> IntV(2)

RawValue(key, class) ==
  CASE class = "lo" -> IF key \in KnownKeys
                       THEN [t |-> "float", v |-> constraints(key)[1].v - 5]
                       ELSE FloatV(-1, 0)
    [] class = "mid" -> MidValue(key)
    [] class = "hi" -> IF key = "seed" THEN IntV(99999) ELSE IntV(999)
    [] class = "int" -> IntValue(key)
    [] class = "nan" -> NaN
    [] class = "true" -> Bool(TRUE)
    [] class = "false" -> Bool(FALSE)
    [] class = "str" -> Str
    [] class = "null" -> Null

MappingOf(c) == [key \in DOMAIN c |-> RawValue(key, c[key])]

SmallMappings ==
  {MappingOf(c) : c \in UNION {[S -> Classes] :
                     S \in {T \in SUBSET AllKeys : Cardinality(T) <= MaxKeys}}}

\* every key present, all values of one class
FullMappings == {[key \in AllKeys |-> RawValue(key, class)] : class \in Classes}

\* {"amplitude": 999, "octaves": "bad", "terrain_type": 2}
ScenarioMapping ==
  [key \in {"amplitude", "octaves", "terrain_type"} |->
     CASE key = "amplitude" -> IntV(999)
       [] key = "octaves" -> Str
       [] key = "terrain_type" -> IntV(2)]

Mappings == SmallMappings \cup FullMappings \cup {ScenarioMapping}

(***************************************************************************)
(* fallback_analysis.                                                       *)
(***************************************************************************)
MountainWords == {"mountain", "mountains", "peak", "peaks"}
HillWords == {"hill", "hills", "hilly", "rolling"}
ValleyWords == {"valley", "valleys", "depression", "low"}
FlatWords == {"flat", "plain", "plains", "level"}
PlateauWords == {"plateau", "mesa", "tableland"}
LargeWords == {"large", "big", "huge", "massive"}
SmallWords == {"small", "tiny", "little", "mini"}
RoughWords == {"rough", "jagged", "rocky", "detailed"}
SmoothWords == {"smooth", "gentle", "soft", "simple"}
WaterWords == {"river", "stream", "water", "creek"}

\* any(word in text_lower for word in words)
AnyWordIn(words, text_lower) == \E word \in words : Contains(word, text_lower)

\* x *= factor, the factor given in tenths
Times(x, tenths) == [t |-> "float", v |-> (x.v * tenths) \div 10]

\* the "Default parameters" dict, seed being the urandom draw modulo 10000
DefaultParams(seed) ==
  [key \in KnownKeys |-> IF key = "seed" THEN IntV(seed) ELSE defaults(key)]

\* the terrain type if/elif chain
TerrainLayer(params, text_lower) ==
  IF AnyWordIn(MountainWords, text_lower)
  THEN [params EXCEPT !["terrain_type"] = IntV(2),
                      !["amplitude"] = FloatV(15, 0),
                      !["frequency"] = FloatV(0, 50)]
  ELSE IF AnyWordIn(HillWords, text_lower)
  THEN [params EXCEPT !["terrain_type"] = IntV(1),
                      !["amplitude"] = FloatV(8, 0),
                      !["frequency"] = FloatV(0, 100)]
  ELSE IF AnyWordIn(ValleyWords, text_lower)
  THEN [params EXCEPT !["terrain_type"] = IntV(3),
                      !["amplitude"] = FloatV(6, 0)]
  ELSE IF AnyWordIn(FlatWords, text_lower)
  THEN [params EXCEPT !["terrain_type"] = IntV(0),
                      !["amplitude"] = FloatV(1, 0)]
  ELSE IF AnyWordIn(PlateauWords, text_lower)
  THEN [params EXCEPT !["terrain_type"] = IntV(4),
                      !["plateau"] = FloatV(5, 0),
                      !["amplitude"] = FloatV(8, 0)]
  ELSE params

\* the size modifiers with the small branch tested first
SizeLayer_SmallFirst(params, text_lower) ==
  IF AnyWordIn(SmallWords, text_lower)
  THEN [params EXCEPT !["frequency"] = Times(@, 20),
                      !["amplitude"] = Times(@, 7)]
  ELSE IF AnyWordIn(LargeWords, text_lower)
  THEN [params EXCEPT !["frequency"] = Times(@, 5),
                      !["amplitude"] = Times(@, 15)]
  ELSE params

\* the size modifiers if/elif
SizeLayer(params, text_lower) ==
  IF AnyWordIn(LargeWords, text_lower)
  THEN [params EXCEPT !["frequency"] = Times(@, 5),
                      !["amplitude"] = Times(@, 15)]
  ELSE IF AnyWordIn(SmallWords, text_lower)
  THEN [params EXCEPT !["frequency"] = Times(@, 20),
                      !["amplitude"] = Times(@, 7)]
  ELSE params

\* the detail modifiers if/elif
DetailLayer(params, text_lower) ==
  IF AnyWordIn(RoughWords, text_lower)
  THEN [params EXCEPT !["octaves"] = IntV(5),
                      !["lacunarity"] = FloatV(2, 500)]
  ELSE IF AnyWordIn(SmoothWords, text_lower)
  THEN [params EXCEPT !["octaves"] = IntV(2),
                      !["persistence"] = FloatV(0, 300)]
  ELSE params

\* the water features if
WaterLayer(params, text_lower) ==
  IF AnyWordIn(WaterWords, text_lower)
  THEN [params EXCEPT !["erosion"] = FloatV(0, 300)]
  ELSE params

fallback_analysis(t, seed) ==
  LET text_lower == Lower(t)
  IN WaterLayer(
       DetailLayer(
         SizeLayer(
           TerrainLayer(DefaultParams(seed), text_lower),
           text_lower),
         text_lower),
       text_lower)

(***************************************************************************)
(* The texts and seeds given to fallback_analysis.                         *)
(***************************************************************************)
\* the largest number of vocabulary words of an enumerated text
MaxWords == 2

Vocabulary == {"Mountains", "hilly", "below", "FLAT", "plainly", "mesa",
               "huge", "small", "rocky", "gentle", "stream"}

RECURSIVE Phrases(_)
Phrases(n) ==
  IF n = 0 THEN {""}
  ELSE LET shorter == Phrases(n - 1)
       IN shorter \cup {IF p = "" THEN w ELSE p \o " " \o w :
                          p \in shorter, w \in Vocabulary}

ScenarioTexts == {"I want rolling hills", "Make some mountains with rivers",
                  "Flat area with small bumps", "big tiny plateau",
                  "Mountains huge small"}

Texts == Phrases(MaxWords) \cup ScenarioTexts

\* values of int.from_bytes(os.urandom(4)) % 10000
Seeds == {0, 9999}

(***************************************************************************)
(* SpecHeuristic: fallback_analysis called twice on one text.              *)
(***************************************************************************)
HeuristicIdle ==
  /\ htext = ""
  /\ hres1 = EmptyMap
  /\ hres2 = EmptyMap
  /\ hpc = "idle"

ValidateIdle ==
  /\ vin = EmptyMap
  /\ vout = Raised
  /\ vout2 = Raised
  /\ vpc = "idle"

HeuristicFirstCall ==
  /\ hpc = "in"
  /\ \E seed \in Seeds : hres1' = fallback_analysis(htext, seed)
  /\ hpc' = "one"
  /\ UNCHANGED <<htext, hres2, vvars, pvars>>

HeuristicSecondCall ==
  /\ hpc = "one"
  /\ \E seed \in Seeds : hres2' = fallback_analysis(htext, seed)
  /\ hpc' = "two"
  /\ UNCHANGED <<htext, hres1, vvars, pvars>>

NextHeuristic == HeuristicFirstCall \/ HeuristicSecondCall

(***************************************************************************)
(* fallback_transcription and transcribe_audio.                            *)
(***************************************************************************)
\* the largest index of character c in t, 0 when there is none
LastIndex(c, t) ==
  LET S == {i \in 1..Len(t) : SubSeq(t, i, i) = c}
  IN IF S = {} THEN 0 ELSE CHOOSE i \in S : \A j \in S : j <= i

\* Path(p).name and Path(p).stem: the last component, without its last suffix
PathName(path) == SubSeq(path, LastIndex("/", path) + 1, Len(path))

PathStem(path) ==
  LET name == PathName(path)
      i == LastIndex(".", name)
  IN IF 1 < i /\ i < Len(name) THEN SubSeq(name, 1, i - 1) ELSE name

\* the fallback_phrases dict, in insertion order
fallback_phrases ==
  << <<"mountain", "I want some mountains">>,
     <<"hill", "Make rolling hills">>,
     <<"valley", "Create valleys with a river">>,
     <<"flat", "I want a flat plain">>,
     <<"rough", "Make rough rocky terrain">>,
     <<"smooth", "Create smooth gentle hills">> >>

\* the for loop over fallback_phrases.items() from entry i on, then the default
RECURSIVE ScanPhrases(_, _, _)
ScanPhrases(filename, i, default_phrase) ==
  IF i > Len(fallback_phrases) THEN default_phrase
  ELSE IF Contains(fallback_phrases[i][1], filename) THEN fallback_phrases[i][2]
  ELSE ScanPhrases(filename, i + 1, default_phrase)

\* a fallback that returns nothing when no keyword matches
fallback_transcription_NoDefault(audio_file_path) ==
  ScanPhrases(Lower(PathStem(audio_file_path)), 1, "")

fallback_transcription(audio_file_path) ==
  ScanPhrases(Lower(PathStem(audio_file_path)), 1, "Create hilly terrain")

\* the speech engine's outcome: it raises, or returns result["text"]
NoHeard == [kind |-> "none", text |-> ""]
EngineRaises == [kind |-> "raise", text |-> ""]
EngineText(t) == [kind |-> "text", text |-> t]

\* transcribe_audio: the transcript and the calls made
transcribe_audio(model, audio_file_path, outcome) ==
  IF ~model
  THEN [text |-> fallback_transcription(audio_file_path),
        log |-> <<"fallback_transcription">>]
  ELSE IF outcome.kind = "raise"
  THEN [text |-> fallback_transcription(audio_file_path),
        log |-> <<"whisper", "fallback_transcription">>]
  ELSE [text |-> Strip(outcome.text), log |-> <<"whisper">>]

(***************************************************************************)
(* analyze_terrain_request and extract_keywords.                           *)
(***************************************************************************)
\* the remote outcome: the call (or reading its content) raises, the content
\* is not JSON, or the content parses to a JSON value
NoReply == Scalar("none")
RemoteRaises == Scalar("raise")
NotJson == Scalar("garbage")

\* an analyzer that tries the remote call again before it gives up
analyze_terrain_request_Retry(client, t, outcome, seed) ==
  IF ~client
  THEN [parameters |-> fallback_analysis(t, seed),
        log |-> <<"fallback_analysis", "fallback_analysis:return">>]
  ELSE IF outcome.kind \in {"raise", "garbage"} \/ validate_parameters(outcome).raised
  THEN [parameters |-> fallback_analysis(t, seed),
        log |-> <<"remote", "remote", "fallback_analysis", "fallback_analysis:return">>]
  ELSE [parameters |-> validate_parameters(outcome).rec,
        log |-> <<"remote", "json.loads", "validate_parameters",
                  "validate_parameters:return">>]

\* analyze_terrain_request: the parameters and the calls made
analyze_terrain_request(client, t, outcome, seed) ==
  IF ~client
  THEN [parameters |-> fallback_analysis(t, seed),
        log |-> <<"fallback_analysis", "fallback_analysis:return">>]
  ELSE IF outcome.kind = "raise"
  THEN [parameters |-> fallback_analysis(t, seed),
        log |-> <<"remote", "fallback_analysis", "fallback_analysis:return">>]
  ELSE IF outcome.kind = "garbage"
  THEN [parameters |-> fallback_analysis(t, seed),
        log |-> <<"remote", "json.loads", "fallback_analysis",
                  "fallback_analysis:return">>]
  ELSE IF validate_parameters(outcome).raised
  THEN [parameters |-> fallback_analysis(t, seed),
        log |-> <<"remote", "json.loads", "validate_parameters",
                  "fallback_analysis", "fallback_analysis:return">>]
  ELSE [parameters |-> validate_parameters(outcome).rec,
        log |-> <<"remote", "json.loads", "validate_parameters",
                  "validate_parameters:return">>]

\* terrain_keywords + feature_keywords + size_keywords
all_keywords ==
  <<"mountain", "mountains", "hill", "hills", "valley", "valleys",
    "flat", "plain", "plains", "plateau", "mesa",
    "river", "stream", "water", "rough", "smooth", "jagged",
    "gentle", "steep", "rocky", "grassy", "forest",
    "large", "big", "huge", "small", "tiny", "massive", "mini">>

extract_keywords(t) ==
  LET text_lower == Lower(t)
  IN SelectSeq(all_keywords, LAMBDA keyword : Contains(keyword, text_lower))

(***************************************************************************)
(* The processor's construction.                                           *)
(***************************************************************************)
\* setup_openai: "client" when self.openai_client is set, "none" when it stays
\* None, "raise" when reading the key file raises out of the constructor
setup_openai(available, envKey, keyFile, ctorOk) ==
  IF ~available THEN "none"
  ELSE IF ~envKey /\ keyFile = "absent" THEN "none"
  ELSE IF ~envKey /\ keyFile = "unreadable" THEN "raise"
  ELSE IF ctorOk THEN "client" ELSE "none"

\* setup_whisper: whether self.whisper_model is set
setup_whisper(available, loadOk) == available /\ loadOk

(***************************************************************************)
(* The inputs of a run.                                                    *)
(***************************************************************************)
Program == "voice_processor.py"

Paths == {"mountain_test.wav", "/nonexistent/path.wav", "rec/Hill.Valley.WAV",
          "mountains/clip.wav", "smooth_flat.wav"}

Argvs == {<<Program>>} \cup {<<Program, p>> : p \in Paths}
           \cup {<<Program, "mountain_test.wav", "extra">>}

EngineOutcomes ==
  {EngineRaises, EngineText(""), EngineText(" \n"),
   EngineText(" Huge mountains \n"), EngineText("I want rolling hills"),
   EngineText("tiny FLAT plainly")}

Replies ==
  {RemoteRaises, NotJson,
   Obj(EmptyMap), Obj(ScenarioMapping),
   Obj([key \in AllKeys |-> RawValue(key, "hi")]),
   Obj([key \in {"seed", "plateau", UnknownKey} |-> RawValue(key, "true")]),
   Obj([key \in {"octaves", "erosion"} |-> RawValue(key, "nan")]),
   List({}), List({"seed"}), JStr("hello"), JStr("my seed"),
   Scalar("num"), Scalar("bool"), Scalar("null")}

\* the two lines printed by the import guards
OpenAIWarning == "Warning: OpenAI library not installed. Install with: pip install openai"
WhisperWarning == "Warning: Whisper library not installed. Install with: pip install openai-whisper"

TextOut(line) == [kind |-> "text", line |-> line]
JsonOut(doc) == [kind |-> "json", doc |-> doc]

NoResult == [none |-> TRUE]

(***************************************************************************)
(* Spec: one run of the program.                                           *)
(***************************************************************************)
ProgramIdle ==
  /\ pc = "idle"
  /\ argv = <<Program>>
  /\ fileExists = FALSE
  /\ OPENAI_AVAILABLE = FALSE
  /\ WHISPER_AVAILABLE = FALSE
  /\ openai_client = FALSE
  /\ whisper_model = FALSE
  /\ heard = NoHeard
  /\ text = ""
  /\ reply = NoReply
  /\ parameters = EmptyMap
  /\ result = NoResult
  /\ stdout = <<>>
  /\ calls = <<>>

Init ==
  /\ pc = "import"
  /\ argv \in Argvs
  /\ fileExists \in BOOLEAN
  /\ OPENAI_AVAILABLE = FALSE
  /\ WHISPER_AVAILABLE = FALSE
  /\ openai_client = FALSE
  /\ whisper_model = FALSE
  /\ heard = NoHeard
  /\ text = ""
  /\ reply = NoReply
  /\ parameters = EmptyMap
  /\ result = NoResult
  /\ stdout = <<>>
  /\ calls = <<>>
  /\ ValidateIdle
  /\ HeuristicIdle

\* the module's import guards
ImportModule ==
  /\ pc = "import"
  /\ \E oa \in BOOLEAN, wa \in BOOLEAN :
       /\ OPENAI_AVAILABLE' = oa
       /\ WHISPER_AVAILABLE' = wa
       /\ stdout' = stdout \o (IF oa THEN <<>> ELSE <<TextOut(OpenAIWarning)>>)
                           \o (IF wa THEN <<>> ELSE <<TextOut(WhisperWarning)>>)
  /\ pc' = "main"
  /\ UNCHANGED <<argv, fileExists, openai_client, whisper_model, heard, text,
                 reply, parameters, result, calls, vvars, hvars>>

\* main with len(sys.argv) != 2
MainUsage ==
  /\ pc = "main"
  /\ Len(argv) # 2
  /\ stdout' = Append(stdout,
       JsonOut([error |-> "Usage: python voice_processor.py <audio_file_path>"]))
  /\ pc' = "exit"
  /\ UNCHANGED <<argv, fileExists, OPENAI_AVAILABLE, WHISPER_AVAILABLE,
                 openai_client, whisper_model, heard, text, reply, parameters,
                 result, calls, vvars, hvars>>

\* VoiceTerrainProcessor(): setup_openai, then setup_whisper; an exception is
\* caught by main and printed
Construct ==
  /\ pc = "main"
  /\ Len(argv) = 2
  /\ \E envKey \in BOOLEAN, keyFile \in {"absent", "present", "unreadable"},
        ctorOk \in BOOLEAN, loadOk \in BOOLEAN :
       LET c == setup_openai(OPENAI_AVAILABLE, envKey, keyFile, ctorOk)
       IN IF c = "raise"
          THEN /\ stdout' = Append(stdout, JsonOut([error |-> "Permission denied"]))
               /\ pc' = "exit"
               /\ UNCHANGED <<openai_client, whisper_model>>
          ELSE /\ openai_client' = (c = "client")
               /\ whisper_model' = setup_whisper(WHISPER_AVAILABLE, loadOk)
               /\ pc' = "process"
               /\ UNCHANGED stdout
  /\ UNCHANGED <<argv, fileExists, OPENAI_AVAILABLE, WHISPER_AVAILABLE, heard,
                 text, reply, parameters, result, calls, vvars, hvars>>

\* process_voice_command entered without the os.path.exists test
ProcessVoiceCommand_NoExistsCheck ==
  /\ pc = "process"
  /\ calls' = Append(calls, "process_voice_command")
  /\ pc' = "transcribe"
  /\ UNCHANGED result
  /\ UNCHANGED <<argv, fileExists, OPENAI_AVAILABLE, WHISPER_AVAILABLE,
                 openai_client, whisper_model, heard, text, reply, parameters,
                 stdout, vvars, hvars>>

\* process_voice_command up to the os.path.exists test
ProcessVoiceCommand ==
  /\ pc = "process"
  /\ calls' = Append(calls, "process_voice_command")
  /\ IF ~fileExists
     THEN /\ result' = [error |-> "Audio file not found: " \o argv[2]]
          /\ pc' = "print"
     ELSE /\ pc' = "transcribe"
          /\ UNCHANGED result
  /\ UNCHANGED <<argv, fileExists, OPENAI_AVAILABLE, WHISPER_AVAILABLE,
                 openai_client, whisper_model, heard, text, reply, parameters,
                 stdout, vvars, hvars>>

\* Step 1: transcribe_audio and the `if not text` test
Transcribe ==
  /\ pc = "transcribe"
  /\ \E outcome \in (IF whisper_model THEN EngineOutcomes ELSE {NoHeard}) :
       LET r == transcribe_audio(whisper_model, argv[2], outcome)
       IN /\ heard' = outcome
          /\ text' = r.text
          /\ calls' = calls \o r.log
          /\ IF r.text = ""
             THEN /\ result' = [error |-> "Failed to transcribe audio"]
                  /\ pc' = "print"
             ELSE /\ pc' = "analyze"
                  /\ UNCHANGED result
  /\ UNCHANGED <<argv, fileExists, OPENAI_AVAILABLE, WHISPER_AVAILABLE,
                 openai_client, whisper_model, reply, parameters, stdout,
                 vvars, hvars>>

\* Step 2: analyze_terrain_request
Analyze ==
  /\ pc = "analyze"
  /\ \E outcome \in (IF openai_client THEN Replies ELSE {NoReply}), seed \in Seeds :
       LET r == analyze_terrain_request(openai_client, text, outcome, seed)
       IN /\ reply' = outcome
          /\ parameters' = r.parameters
          /\ calls' = calls \o r.log
  /\ pc' = "assemble"
  /\ UNCHANGED <<argv, fileExists, OPENAI_AVAILABLE, WHISPER_AVAILABLE,
                 openai_client, whisper_model, heard, text, result, stdout,
                 vvars, hvars>>

\* Step 3: the result dict, with extract_keywords
Assemble ==
  /\ pc = "assemble"
  /\ result' = [text |-> text, parameters |-> parameters,
                keywords |-> extract_keywords(text), success |-> TRUE]
  /\ calls' = Append(calls, "extract_keywords")
  /\ pc' = "print"
  /\ UNCHANGED <<argv, fileExists, OPENAI_AVAILABLE, WHISPER_AVAILABLE,
                 openai_client, whisper_model, heard, text, reply, parameters,
                 stdout, vvars, hvars>>

\* main: print(json.dumps(result, indent=2))
PrintResult ==
  /\ pc = "print"
  /\ stdout' = Append(stdout, JsonOut(result))
  /\ pc' = "exit"
  /\ UNCHANGED <<argv, fileExists, OPENAI_AVAILABLE, WHISPER_AVAILABLE,
                 openai_client, whisper_model, heard, text, reply, parameters,
                 result, calls, vvars, hvars>>

Next ==
  \/ ImportModule
  \/ MainUsage
  \/ Construct
  \/ ProcessVoiceCommand
  \/ Transcribe
  \/ Analyze
  \/ Assemble
  \/ PrintResult

Spec == Init /\ [][Next]_vars

(***************************************************************************)
(* SpecHeuristic, continued: its initial states and specification.          *)
(***************************************************************************)
InitHeuristic ==
  /\ htext \in Texts
  /\ hres1 = EmptyMap
  /\ hres2 = EmptyMap
  /\ hpc = "in"
  /\ ValidateIdle
  /\ ProgramIdle

SpecHeuristic == InitHeuristic /\ [][NextHeuristic]_vars

(***************************************************************************)
(* SpecValidate: validate_parameters applied to a mapping, then to its own *)
(* result.                                                                  *)
(***************************************************************************)
InitValidate ==
  /\ vin \in Mappings
  /\ vout = Raised
  /\ vout2 = Raised
  /\ vpc = "in"
  /\ HeuristicIdle
  /\ ProgramIdle

Validate ==
  /\ vpc = "in"
  /\ vout' = validate_parameters(Obj(vin))
  /\ vpc' = "once"
  /\ UNCHANGED <<vin, vout2, hvars, pvars>>

Revalidate ==
  /\ vpc = "once"
  /\ ~vout.raised
  /\ vout2' = validate_parameters(Obj(vout.rec))
  /\ vpc' = "twice"
  /\ UNCHANGED <<vin, vout, hvars, pvars>>

NextValidate == Validate \/ Revalidate

SpecValidate == InitValidate /\ [][NextValidate]_vars

(***************************************************************************)
(* Properties of validate_parameters (SpecValidate).                       *)
(***************************************************************************)
\* the numeric value lies in the closed range of the field
InRange(key, x) ==
  /\ x.t \in {"int", "float", "bool"}
  /\ constraints(key)[1].v <= x.v
  /\ x.v <= constraints(key)[2].v

\* C2: validate_parameters never raises on a mapping; its result has exactly
\* the 9 known keys, every value inside the field's inclusive range, and seed,
\* octaves and terrain_type of type int; unknown keys never appear.
C2_ValidateTotal ==
  vpc # "in" =>
    /\ ~vout.raised
    /\ DOMAIN vout.rec = KnownKeys
    /\ \A key \in KnownKeys : InRange(key, vout.rec[key])
    /\ \A key \in IntFields :
         vout.rec[key].t = "int" /\ vout.rec[key].v % 1000 = 0

\* a mapping with an unknown key and a wrong-typed or out-of-range known key
\* has been validated
C2_Witness ==
  /\ vpc = "once"
  /\ UnknownKey \in DOMAIN vin
  /\ \E key \in DOMAIN vin \cap KnownKeys :
       ~IsNumeric(vin[key]) \/ ~InRange(key, vin[key])

\* the number nearest to v in [lo, hi], in thousandths
Nearest(lo, hi, v) == IF v < lo THEN lo ELSE IF v > hi THEN hi ELSE v

\* C3 as stated: a present int or float is clamped and unchanged when in
\* range; a present string or null gives the minimum; an absent field gives
\* its default.  (Booleans and nan are left unconstrained here.)
C3_ThreeWayUnchanged ==
  vpc # "in" =>
    \A key \in KnownKeys :
      LET lo == constraints(key)[1].v
          hi == constraints(key)[2].v
          out == vout.rec[key]
      IN IF key \notin DOMAIN vin THEN out = defaults(key)
         ELSE CASE vin[key].t \in {"int", "float"} ->
                     out.v = Nearest(lo, hi, vin[key].v)
                [] vin[key].t \in {"str", "null"} -> out.v = lo
                [] OTHER -> TRUE

\* C3 amended: as above, and seed, octaves and terrain_type are truncated to
\* an integer after clamping; a boolean counts as the number 1 or 0 and is
\* clamped like one; nan gives the maximum.
C3_ThreeWayTruncated ==
  vpc # "in" =>
    \A key \in KnownKeys :
      LET lo == constraints(key)[1].v
          hi == constraints(key)[2].v
          out == vout.rec[key]
          coerce(v) == IF key \in IntFields THEN (v \div 1000) * 1000 ELSE v
      IN IF key \notin DOMAIN vin THEN out = defaults(key)
         ELSE CASE vin[key].t \in {"int", "float", "bool"} ->
                     out.v = coerce(Nearest(lo, hi, vin[key].v))
                [] vin[key].t = "nan" -> out.v = hi
                [] OTHER -> out.v = lo

\* {"amplitude": 999, "octaves": "bad", "terrain_type": 2} has been validated
\* to amplitude 20.0, octaves 1, terrain_type 2 and defaults elsewhere
C3_Witness ==
  /\ vpc = "once"
  /\ vin = ScenarioMapping
  /\ vout.rec["amplitude"] = FloatV(20, 0)
  /\ vout.rec["octaves"] = IntV(1)
  /\ vout.rec["terrain_type"] = IntV(2)
  /\ \A key \in KnownKeys \ DOMAIN vin : vout.rec[key] = defaults(key)

\* C8: validating a validated record changes nothing, field by field.
C8_ValidateIdempotent ==
  vpc = "twice" =>
    /\ ~vout2.raised
    /\ \A key \in KnownKeys : vout2.rec[key] = vout.rec[key]

\* a mapping the validator changed (a clamped or replaced value, or a filled-in
\* default) has been validated twice
C8_Witness ==
  /\ vpc = "twice"
  /\ \E key \in DOMAIN vin \cap KnownKeys : vin[key] # vout.rec[key]
  /\ \E key \in KnownKeys : key \notin DOMAIN vin

(***************************************************************************)
(* Properties of fallback_analysis (SpecHeuristic).                        *)
(***************************************************************************)
\* the first family of the fixed order with a word contained in the text
FirstFamily(text_lower) ==
  LET order == <<MountainWords, HillWords, ValleyWords, FlatWords, PlateauWords>>
      names == <<"mountain", "hill", "valley", "flat", "plateau">>
      hits == {i \in 1..Len(order) : AnyWordIn(order[i], text_lower)}
  IN IF hits = {} THEN "none"
     ELSE names[CHOOSE i \in hits : \A j \in hits : i <= j]

\* the layered reference: what each field other than seed must be, in
\* thousandths
Layered(t) ==
  LET text_lower == Lower(t)
      family == FirstFamily(text_lower)
      up == AnyWordIn(LargeWords, text_lower)
      down == ~up /\ AnyWordIn(SmallWords, text_lower)
      rough == AnyWordIn(RoughWords, text_lower)
      smooth == ~rough /\ AnyWordIn(SmoothWords, text_lower)
      type == CASE family = "mountain" -> 2 [] family = "hill" -> 1
                [] family = "valley" -> 3 [] family = "flat" -> 0
                [] family = "plateau" -> 4 [] OTHER -> 1
      amp == CASE family = "mountain" -> 15000 [] family = "hill" -> 8000
               [] family = "valley" -> 6000 [] family = "flat" -> 1000
               [] family = "plateau" -> 8000 [] OTHER -> 5000
      freq == IF family = "mountain" THEN 50 ELSE 100
  IN [terrain_type |-> type * 1000,
      amplitude |-> IF up THEN (amp * 3) \div 2
                    ELSE IF down THEN (amp * 7) \div 10 ELSE amp,
      frequency |-> IF up THEN freq \div 2 ELSE IF down THEN freq * 2 ELSE freq,
      octaves |-> IF rough THEN 5000 ELSE IF smooth THEN 2000 ELSE 3000,
      lacunarity |-> IF rough THEN 2500 ELSE 2000,
      persistence |-> IF smooth THEN 300 ELSE 500,
      erosion |-> IF AnyWordIn(WaterWords, text_lower) THEN 300 ELSE 0,
      plateau |-> IF family = "plateau" THEN 5000 ELSE 0]

MatchesLayered(params, t) ==
  /\ DOMAIN params = KnownKeys
  /\ params["seed"].t = "int"
  /\ params["seed"].v % 1000 = 0
  /\ 0 <= params["seed"].v /\ params["seed"].v <= 9999000
  /\ \A key \in KnownKeys \ {"seed"} : params[key].v = Layered(t)[key]

\* C9: for every text fallback_analysis equals the layered reference (one
\* terrain family by first match, then at most one scale branch with size-up
\* first, multiplying what the terrain layer left, then at most one detail
\* branch with roughness first, then erosion 0.3 on a water word), matching
\* by substring on the lower-cased text, with a seed in 0..9999; two calls on
\* one text differ at most in seed; "Make some mountains with rivers" gives
\* terrain_type 2, amplitude 15.0, frequency 0.05, erosion 0.3.
C9_HeuristicLayered ==
  /\ hpc \in {"one", "two"} => MatchesLayered(hres1, htext)
  /\ hpc = "two" =>
       /\ MatchesLayered(hres2, htext)
       /\ \A key \in KnownKeys \ {"seed"} : hres1[key] = hres2[key]
  /\ (hpc \in {"one", "two"} /\ htext = "Make some mountains with rivers") =>
       /\ hres1["terrain_type"] = IntV(2)
       /\ hres1["amplitude"] = FloatV(15, 0)
       /\ hres1["frequency"] = FloatV(0, 50)
       /\ hres1["erosion"] = FloatV(0, 300)

\* a text with an upper-case mountain word, both a size-up and a size-down
\* word has been analysed twice with different seeds
C9_Witness ==
  /\ hpc = "two"
  /\ htext = "Mountains huge small"
  /\ hres1["seed"] # hres2["seed"]
  /\ hres1["amplitude"] = FloatV(22, 500)
  /\ hres2["frequency"] = FloatV(0, 25)

(***************************************************************************)
(* Properties of the program (Spec).                                       *)
(***************************************************************************)
Count(name) == Cardinality({i \in DOMAIN calls : calls[i] = name})
Called(name) == \E i \in DOMAIN calls : calls[i] = name

IsSuccess(doc) ==
  /\ DOMAIN doc = {"text", "parameters", "keywords", "success"}
  /\ doc.success = TRUE

IsError(doc) == DOMAIN doc = {"error"}

TranscribeError == [error |-> "Failed to transcribe audio"]

\* C1: the parameters of every success result hold all 9 fields, each inside
\* its documented range, whichever analyzer produced them.
C1_ParametersInRange ==
  IsSuccess(result) =>
    /\ DOMAIN result.parameters = KnownKeys
    /\ \A key \in KnownKeys : InRange(key, result.parameters[key])

\* C4: when the remote call raises, or its reply is not JSON, or is JSON that
\* is not an object, analyze_terrain_request returns what fallback_analysis
\* returns for the text (up to seed).
C4_FallbackTransparency ==
  (/\ pc \in {"assemble", "print", "exit"}
   /\ reply.kind \in {"raise", "garbage", "list", "str", "num", "bool", "null"}) =>
    \E seed \in 0..9999 :
      /\ parameters["seed"] = IntV(seed)
      /\ \A key \in KnownKeys \ {"seed"} :
           parameters[key] = fallback_analysis(text, 0)[key]

\* C5: at exit standard output holds exactly one JSON object and nothing
\* else, of the error shape or of the success shape.
C5_SingleJsonDocument ==
  pc = "exit" =>
    /\ Len(stdout) = 1
    /\ stdout[1].kind = "json"
    /\ IsError(stdout[1].doc) \/ IsSuccess(stdout[1].doc)

\* C6: when no file exists at the path, process_voice_command returns exactly
\* {error: "Audio file not found: <path>"} and no later stage runs: no
\* transcription, remote call, heuristic analysis, validation or keyword
\* extraction.
C6_MissingFileShortCircuit ==
  (Called("process_voice_command") /\ ~fileExists) =>
    /\ result = [error |-> "Audio file not found: " \o argv[2]]
    /\ \A i \in DOMAIN calls : calls[i] = "process_voice_command"
    /\ heard = NoHeard
    /\ text = ""
    /\ reply = NoReply
    /\ parameters = EmptyMap
    /\ pc = "exit" => stdout[Len(stdout)] = JsonOut(result)

\* the run on the missing /nonexistent/path.wav has ended
C6_Witness ==
  /\ pc = "exit"
  /\ Len(argv) = 2
  /\ argv[2] = "/nonexistent/path.wav"
  /\ ~fileExists
  /\ result = [error |-> "Audio file not found: /nonexistent/path.wav"]

\* C7: no stage is retried in a request: at most one speech-engine call, at
\* most one remote call (exactly one when a client is configured and the
\* transcript is non-empty, none otherwise), at most one heuristic analysis,
\* and only after the remote path was unavailable or failed; the heuristic
\* analyzer and the validator never both return the record.
C7_NoRetry ==
  /\ Count("whisper") <= 1
  /\ Count("remote") <= 1
  /\ Count("fallback_analysis") <= 1
  /\ Count("fallback_analysis:return") + Count("validate_parameters:return") <= 1
  /\ pc \in {"assemble", "print", "exit"} =>
       (Count("remote") = 1 <=> (openai_client /\ text # ""))
  /\ ~openai_client => Count("remote") = 0
  /\ \A i \in DOMAIN calls :
       calls[i] = "fallback_analysis" =>
         /\ Count("validate_parameters:return") = 0
         /\ \/ ~openai_client
            \/ \E j \in 1..(i - 1) : calls[j] = "remote"
  /\ IsSuccess(result) =>
       Count("fallback_analysis:return") + Count("validate_parameters:return") = 1

\* a run with a client has ended in which the remote reply reached the
\* validator, the validator raised and the heuristic analyzer took over
C7_Witness ==
  /\ pc = "exit"
  /\ openai_client
  /\ Count("whisper") = 1
  /\ Count("remote") = 1
  /\ Count("validate_parameters") = 1
  /\ Count("fallback_analysis") = 1
  /\ IsSuccess(result)

\* the phrase of the first keyword of the ordered table contained in the
\* lower-cased file stem, or the default phrase
CannedPhrase(path) ==
  LET stem == Lower(PathStem(path))
      hits == {i \in 1..Len(fallback_phrases) : Contains(fallback_phrases[i][1], stem)}
  IN IF hits = {} THEN "Create hilly terrain"
     ELSE fallback_phrases[CHOOSE i \in hits : \A j \in hits : i <= j][2]

Transcribed == Called("whisper") \/ Called("fallback_transcription")

\* C10 as stated: whenever the engine is unavailable, raises, or yields text
\* that is empty after trimming, the transcript is the canned phrase, so it
\* is non-empty and the run continues to analysis; the transcription error is
\* produced only after the fallback transcript came back empty.
C10_FallbackOnEmptyText ==
  /\ (/\ Transcribed
      /\ \/ ~whisper_model
         \/ heard.kind = "raise"
         \/ heard.kind = "text" /\ Strip(heard.text) = "") =>
       /\ text = CannedPhrase(argv[2])
       /\ text # ""
       /\ result # TranscribeError
  /\ result = TranscribeError => Called("fallback_transcription")

\* C10 amended: whenever the engine is unavailable or raises, the transcript
\* is the canned phrase, so it is non-empty and the run continues to
\* analysis; the transcription error is produced exactly when the engine
\* returned text that is empty after trimming, and the fallback is not
\* consulted then.
C10_FallbackOnEngineFailure ==
  /\ (Transcribed /\ (~whisper_model \/ heard.kind = "raise")) =>
       /\ text = CannedPhrase(argv[2])
       /\ text # ""
       /\ ~IsError(result)
       /\ pc \in {"analyze", "assemble", "print", "exit"}
       /\ pc \in {"print", "exit"} => IsSuccess(result)
  /\ result = TranscribeError <=>
       (Transcribed /\ heard.kind = "text" /\ Strip(heard.text) = "")
  /\ result = TranscribeError => ~Called("fallback_transcription")

\* mountain_test.wav with no engine has been transcribed to "I want some
\* mountains" and analysed
C10_Witness ==
  /\ pc = "exit"
  /\ Len(argv) = 2
  /\ argv[2] = "mountain_test.wav"
  /\ ~whisper_model
  /\ text = "I want some mountains"
  /\ IsSuccess(result)

====
